---- MODULE Spec2Model ----
(***************************************************************************)
(* The conversion job pipeline of the MP3/MP4 converter: the Flask web app *)
(* (src/app.py) and the command-line converter (src/converter.py).         *)
(*                                                                         *)
(* Text.  A Python str is a sequence of atoms.  An atom is a non-empty     *)
(* piece of text; the separators the code looks at (",", " ", ".", "/",    *)
(* "_") are atoms of their own and no other atom contains one of them, and *)
(* no atom is a prefix of another, so two atom sequences are equal exactly *)
(* when the strings they spell are equal, and split / strip / rsplit /     *)
(* lower act on atoms as they act on characters.                           *)
(*                                                                         *)
(* Paths.  A pathlib.Path is the sequence of its parts, "/" first when it   *)
(* is absolute.  The filesystem is the set of directories and the set of   *)
(* regular files, each a location: the components below "/", none of them  *)
(* "." or "..".                                                            *)
(***************************************************************************)
EXTENDS Integers, Sequences, FiniteSets, TLC

\* ------------------------------------------------------------------ bounds

\* Longest raw comma-separated value (in atoms) typed on the command line.
MaxCsvLen == 3

\* ------------------------------------------------------------------ text

\* One-atom string.
S(a) == <<a>>

\* Atoms in Python's str order (code point order); AtomRank is the position.
AtomOrder ==
    << " ", ",", "-", ".", "/", "1280:720", "128k", "1500k", "1920:1080",
       "192k", "2000k", "320k", "854:480", "96k", "WAV", "_", "app", "dist",
       "downloads", "exe", "j1", "j2", "j3", "mp3", "mp4", "nosuch", "output",
       "part", "py", "song", "source", "srv", "templates", "uploads", "url",
       "wav", "webm" >>

AtomRank(a) == CHOOSE i \in 1..Len(AtomOrder) : AtomOrder[i] = a

\* s < t for Python strings.
RECURSIVE StrLess(_, _)
StrLess(s, t) ==
    IF t = <<>> THEN FALSE
    ELSE IF s = <<>> THEN TRUE
    ELSE IF s[1] = t[1] THEN StrLess(Tail(s), Tail(t))
    ELSE AtomRank(s[1]) < AtomRank(t[1])

\* sorted(ss) for a set of strings.
RECURSIVE SortedStrs(_)
SortedStrs(ss) ==
    IF ss = {} THEN <<>>
    ELSE LET m == CHOOSE x \in ss : \A y \in ss \ {x} : StrLess(x, y)
         IN  <<m>> \o SortedStrs(ss \ {m})

\* Index of the first / last occurrence of atom c in s, 0 when absent.
FirstIndex(s, c) ==
    IF \E i \in 1..Len(s) : s[i] = c
    THEN CHOOSE i \in 1..Len(s) : s[i] = c /\ \A j \in 1..(i - 1) : s[j] # c
    ELSE 0

LastIndex(s, c) ==
    IF \E i \in 1..Len(s) : s[i] = c
    THEN CHOOSE i \in 1..Len(s) : s[i] = c /\ \A j \in (i + 1)..Len(s) : s[j] # c
    ELSE 0

\* s.split(sep): one piece more than there are separators; "" gives [""].
RECURSIVE Split(_, _)
Split(s, sep) ==
    LET i == FirstIndex(s, sep)
    IN  IF i = 0 THEN <<s>>
        ELSE <<SubSeq(s, 1, i - 1)>> \o Split(SubSeq(s, i + 1, Len(s)), sep)

\* s.strip(): leading and trailing whitespace removed.
RECURSIVE Strip(_)
Strip(s) ==
    IF s = <<>> THEN s
    ELSE IF s[1] = " " THEN Strip(Tail(s))
    ELSE IF s[Len(s)] = " " THEN Strip(SubSeq(s, 1, Len(s) - 1))
    ELSE s

\* s.lower(): the only upper-case atom of the model is "WAV".
Lower(s) == [i \in 1..Len(s) |-> IF s[i] = "WAV" THEN "wav" ELSE s[i]]

\* s.rsplit(".", 1)[1]: what follows the last dot (s contains a dot).
AfterLastDot(s) == SubSeq(s, LastIndex(s, ".") + 1, Len(s))

\* sep.join(parts)
RECURSIVE Join(_, _)
Join(parts, sep) ==
    IF parts = <<>> THEN <<>>
    ELSE IF Len(parts) = 1 THEN parts[1]
    ELSE parts[1] \o <<sep>> \o Join(Tail(parts), sep)

\* The elements of a sequence that are not in `drop`.
RECURSIVE Without(_, _)
Without(seq, drop) ==
    IF seq = <<>> THEN <<>>
    ELSE IF seq[1] \in drop THEN Without(Tail(seq), drop)
    ELSE <<seq[1]>> \o Without(Tail(seq), drop)

Range(seq) == {seq[i] : i \in 1..Len(seq)}

\* ------------------------------------------------------------------ paths

DOT == S(".")
DOTDOT == <<".", ".">>
\* The root component of an absolute path (pathlib's parts[0] == "/").
ROOT == S("/")

\* The components of a path string: pathlib and the kernel both drop empty
\* and "." components and keep ".." components.
Components(s) == Without(Split(s, "/"), {<<>>, DOT})

\* Path(s).parts
PathOf(s) ==
    IF s # <<>> /\ s[1] = "/" THEN <<ROOT>> \o Components(s) ELSE Components(s)

\* p / s for a string s that does not start with "/".
PathJoin(p, s) == p \o Components(s)

\* str(p)
PathStr(p) ==
    IF p # <<>> /\ p[1] = ROOT THEN <<"/">> \o Join(Tail(p), "/")
    ELSE Join(p, "/")

\* p.name and p.parent
Name(p) == p[Len(p)]
Parent(p) == IF p = <<>> THEN p ELSE SubSeq(p, 1, Len(p) - 1)

\* PurePath.stem: the name without its last suffix; a leading or a trailing
\* dot starts no suffix.
Stem(name) ==
    LET i == LastIndex(name, ".")
    IN  IF 1 < i /\ i < Len(name) THEN SubSeq(name, 1, i - 1) ELSE name

IsPrefix(p, q) == Len(p) <= Len(q) /\ SubSeq(q, 1, Len(p)) = p
StrictlyInside(q, dir) == IsPrefix(dir, q) /\ Len(q) > Len(dir)

\* ------------------------------------------------------------- filesystem
\* A location is the sequence of components below "/", without "." or "..".

\* The working directory of the process, and the directory of app.py
\* (BASE_DIR = Path(__file__).resolve().parent), as locations.
CWD == <<S("srv")>>

\* The components to walk from "/" for path p of a process running in CWD.
FromRoot(p) == IF p # <<>> /\ p[1] = ROOT THEN Tail(p) ELSE CWD \o p

\* Path resolution by the kernel: every component but the last must name an
\* existing directory; ".." steps to the parent ("/.." is "/").
\* The result is the location, or ENOENT.
ENOENT == <<S("ENOENT"), S("ENOENT")>>

RECURSIVE Walk(_, _, _)
Walk(dirs, cur, rest) ==
    IF rest = <<>> THEN cur
    ELSE IF cur \notin dirs THEN ENOENT
    ELSE IF rest[1] = DOTDOT THEN Walk(dirs, Parent(cur), Tail(rest))
    ELSE Walk(dirs, cur \o <<rest[1]>>, Tail(rest))

Resolve(fsys, p) == Walk(fsys.dirs, <<>>, FromRoot(p))

\* os.path.isfile(p)
IsFile(fsys, p) == Resolve(fsys, p) \in fsys.files

\* A location and the locations above it.
Ancestors(loc) == {SubSeq(loc, 1, n) : n \in 0..Len(loc)}

\* p.mkdir(parents=True, exist_ok=True), p without ".." components.
Mkdir(fsys, p) == [fsys EXCEPT !.dirs = @ \cup Ancestors(FromRoot(p))]

\* A regular file appears (or is overwritten) at location loc.
WriteFile(fsys, loc) == [fsys EXCEPT !.files = @ \cup {loc}]

\* The regular files directly inside the directory at location loc.
FilesIn(fsys, loc) == {f \in fsys.files : Parent(f) = loc}

\* ------------------------------------------------ configuration (app.py)

BASE_DIR == <<ROOT>> \o CWD
UPLOAD_DIR == PathJoin(BASE_DIR, S("uploads"))
DOWNLOAD_DIR == PathJoin(BASE_DIR, S("downloads"))
OUTPUT_DIR == PathJoin(BASE_DIR, S("output"))
ALLOWED_EXTENSIONS ==
    {S("mp3"), S("mp4"), S("mov"), S("mkv"), S("wav"), S("aac"), S("flac")}

DEFAULT_MP3_BITRATES == <<S("128k"), S("192k"), S("320k")>>
DEFAULT_MP4_RESOLUTIONS == <<S("1920:1080"), S("1280:720"), S("854:480")>>
\* request.form.get("video_bitrate", "2000k") / ("audio_bitrate", "128k"),
\* and the defaults of --video-bitrate / --audio-bitrate.
DEFAULT_VIDEO_BITRATE == S("2000k")
DEFAULT_AUDIO_BITRATE == S("128k")

\* ------------------------------------------------------- pure functions

allowed_file(filename) ==
    /\ \E i \in 1..Len(filename) : filename[i] = "."
    /\ Lower(AfterLastDot(filename)) \in ALLOWED_EXTENSIONS

\* [item.strip() for item in value.split(",") if item.strip()]
parse_csv(value) ==
    LET items == Split(value, ",")
        stripped == [i \in 1..Len(items) |-> Strip(items[i])]
    IN  Without(stripped, {<<>>})

\* The variant name without its token: f"{input_path.stem}.{ext}"
VariantName_no_token(input_path, token, ext) ==
    Stem(Name(input_path)) \o <<".", ext>>

\* f"{input_path.stem}_{token}.{ext}"
VariantName(input_path, token, ext) ==
    Stem(Name(input_path)) \o <<"_">> \o token \o <<".", ext>>

\* The bitrates taken from the end of the list.
build_mp3_commands_reversed(input_path, output_dir, bitrates) ==
    [k \in 1..Len(bitrates) |->
        << S("ffmpeg"), S("-y"), S("-i"), PathStr(input_path),
           S("-vn"), S("-b:a"), bitrates[Len(bitrates) + 1 - k],
           PathStr(PathJoin(output_dir,
               Stem(Name(input_path)) \o <<"_">>
                   \o bitrates[Len(bitrates) + 1 - k] \o <<".", "mp3">>)) >>]

\* One argument vector per bitrate, in the order of the list.
build_mp3_commands(input_path, output_dir, bitrates) ==
    [k \in 1..Len(bitrates) |->
        << S("ffmpeg"), S("-y"), S("-i"), PathStr(input_path),
           S("-vn"), S("-b:a"), bitrates[k],
           PathStr(PathJoin(output_dir,
                            VariantName(input_path, bitrates[k], "mp3"))) >>]

\* One argument vector per resolution, in the order of the list.
build_mp4_commands(input_path, output_dir, resolutions, video_bitrate, audio_bitrate) ==
    [k \in 1..Len(resolutions) |->
        << S("ffmpeg"), S("-y"), S("-i"), PathStr(input_path),
           S("-vf"), <<"scale=">> \o resolutions[k],
           S("-b:v"), video_bitrate, S("-b:a"), audio_bitrate,
           PathStr(PathJoin(output_dir,
                            VariantName(input_path, resolutions[k], "mp4"))) >>]

\* The output path of an ffmpeg command: its last argument.
OutputArg(command) == PathOf(command[Len(command)])
\* The input path of an ffmpeg command: the argument after "-i".
InputArg(command) == PathOf(command[4])

\* ------------------------------------------------- external collaborators

\* Where ffmpeg would create its output: the location, or ENOENT when a
\* directory on the way does not exist or the path names a directory.
OutputLocation(fsys, command) ==
    LET loc == Resolve(fsys, OutputArg(command))
    IN  IF loc \in fsys.dirs THEN ENOENT ELSE loc

\* The ways one ffmpeg run can end: "ok" (exit 0, the output written),
\* "partial" (non-zero exit, an output file left behind) and "fail" (non-zero
\* exit, nothing written).  Without an input file to read or a place to
\* write, only "fail".
FfmpegEndings(fsys, command) ==
    IF \/ ~IsFile(fsys, InputArg(command))
       \/ OutputLocation(fsys, command) = ENOENT
    THEN {"fail"}
    ELSE {"ok", "partial", "fail"}

\* The filesystem after ffmpeg ran `command` and ended in `ending`.
ffmpeg(fsys, command, ending) ==
    IF ending = "fail" THEN fsys
    ELSE WriteFile(fsys, OutputLocation(fsys, command))

\* The ways one yt-dlp run can end: the exit status and the file names it
\* leaves in the target directory (output template source.%(ext)s).
YtdlpEndings ==
    { [rc |-> 0, names |-> {}],
      [rc |-> 0, names |-> {<<"source", ".", "webm">>, <<"source", ".", "mp4">>}],
      [rc |-> 1, names |-> {<<"source", ".", "mp4", ".", "part">>}] }

\* target_dir.glob("source.*"), sorted
GlobSource(fsys, dirloc) ==
    SortedStrs({Name(f) : f \in {g \in FilesIn(fsys, dirloc) :
                   /\ Len(Name(g)) >= 2
                   /\ Name(g)[1] = "source"
                   /\ Name(g)[2] = "."}})

\* ------------------------------------------------------------------ state

VARIABLES
    run,             \* what runs: "convert" (app.py, overlapping /convert
                     \* requests), "retrieve" (app.py, one /convert request
                     \* and /download requests) or "cli" (converter.py)
    ffmpeg_on_path,  \* shutil.which("ffmpeg") is not None
    ytdlp_on_path,   \* shutil.which("yt-dlp") is not None
    fs,              \* the filesystem: [dirs, files], sets of locations
    req,             \* the /convert requests, each with its handler's locals
    served,          \* what the last /download request answered
    cli              \* the converter.py process

vars == <<run, ffmpeg_on_path, ytdlp_on_path, fs, req, served, cli>>

\* The /convert requests of a run; they may overlap in time.  Two are what a
\* claim about every pair of jobs needs.
Requests == {1, 2}

\* The values uuid.uuid4().hex takes in a run.  uuid4 is taken at its
\* contract: a value it has not returned before.
Ids == {S("j1"), S("j2")}
UsedIds == {req[r].file_id : r \in Requests} \ {<<>>}

\* A form field that was not sent.
ABSENT == S("<absent>")
FormGet(form, key, default) == IF form[key] = ABSENT THEN default ELSE form[key]

NOT_FOUND == <<S("404")>>
NoRequest == [file_id |-> <<>>, filename |-> <<>>, result |-> <<>>]

BlankBatch ==
    [ commands |-> <<>>,  \* the planned argument vectors
      i        |-> 1,     \* the loop position of run_commands
      ran      |-> <<>>,  \* history: the commands run, with their exit status
      raised   |-> <<>> ] \* the CalledProcessError run_commands raised, as <<it>>

BlankRequest ==
    [ pc         |-> "idle",
      form       |-> <<>>,
      file_id    |-> <<>>,
      input_path |-> <<>>,
      output_dir |-> <<>>,
      tokens     |-> <<>>,  \* the list handed to the planner
      batch      |-> BlankBatch,
      outcome    |-> "",    \* how the request ended
      handled    |-> TRUE,  \* FALSE: an exception left the handler
      outputs    |-> <<>>,
      supplied   |-> {},    \* history: "file", "url": what the client sent
      created    |-> {},    \* history: directories this request created
      written    |-> {},    \* history: files this request wrote
      acquired   |-> {},    \* history: acquisition paths this request took
      ytdlp      |-> <<>> ] \* history: how yt-dlp ended, as <<ending>>

BlankCli ==
    [ pc |-> "start", mode |-> "", given |-> FALSE, raw |-> <<>>,
      tokens |-> <<>>, input |-> <<>>, output_dir |-> <<>>,
      batch |-> BlankBatch, exit |-> "" ]

\* The deployed application: app.py and its templates, nothing created yet.
FreshFs ==
    [ dirs  |-> Ancestors(FromRoot(BASE_DIR))
                  \cup {FromRoot(PathJoin(BASE_DIR, S("templates")))},
      files |-> {FromRoot(PathJoin(BASE_DIR, <<"app", ".", "py">>))} ]

\* The working directory of converter.py: the media file to convert.
CliFs ==
    [ dirs  |-> Ancestors(CWD),
      files |-> {CWD \o <<<<"song", ".", "wav">>>>} ]

Init ==
    /\ run \in {"convert", "retrieve", "cli"}
    /\ ffmpeg_on_path \in BOOLEAN
    /\ ytdlp_on_path \in BOOLEAN
    /\ fs = IF run = "cli" THEN CliFs ELSE FreshFs
    /\ req = [r \in Requests |-> BlankRequest]
    /\ served = NoRequest
    /\ cli = BlankCli

\* --------------------------------------------------------- batch executor

\* run_commands without check=True: a non-zero exit raises nothing and the
\* loop goes on.
run_commands_unchecked(b, rc) ==
    [b EXCEPT !.ran = Append(@, [command |-> b.commands[b.i], rc |-> rc]),
              !.i = @ + 1]

\* One iteration of run_commands: subprocess.run(command, check=True) has
\* returned with exit status rc.  A non-zero status raises
\* CalledProcessError(rc, command) and ends the loop.
run_commands(b, rc) ==
    [b EXCEPT !.ran = Append(@, [command |-> b.commands[b.i], rc |-> rc]),
              !.i = IF rc = 0 THEN @ + 1 ELSE @,
              !.raised = IF rc = 0 THEN @
                         ELSE <<[cmd |-> b.commands[b.i], returncode |-> rc]>>]

BatchReturned(b) == b.raised = <<>> /\ b.i > Len(b.commands)
BatchRaised(b) == b.raised # <<>>

\* ---------------------------------------------------- web app: /convert

\* What the browser can send.
UploadNames == {<<>>, <<"song", ".", "WAV">>, <<"song", ".", "exe">>}
UrlFields == {<<>>, <<" ">>, <<" ", "url">>}
BitrateFields ==
    { <<",", " ">>, <<"128k", ",", "128k">>, <<"/", ".", ".", "/", "320k">> }
Forms ==
    { [mode |-> S("mp3"), bitrates |-> b, resolutions |-> ABSENT,
       video_bitrate |-> ABSENT, audio_bitrate |-> ABSENT] : b \in BitrateFields }
    \cup
    { [mode |-> S("mp4"), bitrates |-> ABSENT, resolutions |-> ABSENT,
       video_bitrate |-> ABSENT, audio_bitrate |-> ABSENT],
      [mode |-> S("mp4"), bitrates |-> ABSENT, resolutions |-> <<" ", "1280:720">>,
       video_bitrate |-> S("1500k"), audio_bitrate |-> S("96k")] }

\* mode = request.form.get("mode", "mp3"); mode == "mp3"
IsMp3(form) == FormGet(form, "mode", S("mp3")) = S("mp3")

\* Lines 166-168 and 171-173 of convert: the parsed list, or the default list
\* when it is empty.
WebTokens(form) ==
    IF IsMp3(form)
    THEN LET bitrates == parse_csv(FormGet(form, "bitrates", <<>>))
         IN  IF bitrates = <<>> THEN DEFAULT_MP3_BITRATES ELSE bitrates
    ELSE LET resolutions == parse_csv(FormGet(form, "resolutions", <<>>))
         IN  IF resolutions = <<>> THEN DEFAULT_MP4_RESOLUTIONS ELSE resolutions

\* Lines 165-178 of convert: the commands for the request's form.
WebCommands(form, input_path, output_dir) ==
    IF IsMp3(form)
    THEN build_mp3_commands(input_path, output_dir, WebTokens(form))
    ELSE build_mp4_commands(input_path, output_dir, WebTokens(form),
             FormGet(form, "video_bitrate", DEFAULT_VIDEO_BITRATE),
             FormGet(form, "audio_bitrate", DEFAULT_AUDIO_BITRATE))

\* One output directory for all jobs: output_dir = OUTPUT_DIR
OutputDirOf_shared(file_id) == OUTPUT_DIR

\* output_dir = OUTPUT_DIR / file_id
OutputDirOf(file_id) == PathJoin(OUTPUT_DIR, file_id)
\* download_dir = DOWNLOAD_DIR / file_id
DownloadDirOf(file_id) == PathJoin(DOWNLOAD_DIR, file_id)
\* input_path = UPLOAD_DIR / f"{file_id}.{extension}"
UploadPathOf(file_id, extension) ==
    PathJoin(UPLOAD_DIR, file_id \o <<".">> \o extension)

\* The handler returns: a flashed message and a redirect, or the results page.
Ended(rq, outcome) == [rq EXCEPT !.pc = "done", !.outcome = outcome]

\* An exception leaves the handler.
Escaped(rq, outcome) ==
    [rq EXCEPT !.pc = "done", !.outcome = outcome, !.handled = FALSE]

\* The URL tested against None, which form.get("youtube_url", "") never is.
missing_input_none(uploaded, youtube_url) ==
    uploaded = <<>> /\ youtube_url = ABSENT

\* yt-dlp run without check=True: only the glob decides.
acquisition_failed_unchecked(rc, downloaded_files) == downloaded_files = <<>>

\* Line 134: (not uploaded or uploaded.filename == "") and not youtube_url
missing_input(uploaded, youtube_url) == uploaded = <<>> /\ youtube_url = <<>>

\* Lines 102-116: yt-dlp exited non-zero (CalledProcessError, check=True) or
\* the glob found nothing (RuntimeError).
acquisition_failed(rc, downloaded_files) == rc # 0 \/ downloaded_files = <<>>

\* Lines 185-190: the sorted names of the regular files in output_dir.
Listing(fsys, output_dir) ==
    SortedStrs({Name(f) : f \in FilesIn(fsys, Resolve(fsys, output_dir))})

\* Lines 161-180, up to the first subprocess: output_dir is created and the
\* commands are planned; with nothing to run the results page follows.
Planned(rq, fsys, input_path) ==
    LET output_dir == OutputDirOf(rq.file_id)
        fs1 == Mkdir(fsys, output_dir)
        commands == WebCommands(rq.form, input_path, output_dir)
        r1 == [rq EXCEPT !.input_path = input_path,
                         !.output_dir = output_dir,
                         !.tokens = WebTokens(rq.form),
                         !.batch = [BlankBatch EXCEPT !.commands = commands],
                         !.created = @ \cup (fs1.dirs \ fsys.dirs),
                         !.pc = "running"]
    IN  [ fs |-> fs1,
          rq |-> IF BatchReturned(r1.batch)
                 THEN [Ended(r1, "Success") EXCEPT
                          !.outputs = Listing(fs1, output_dir)]
                 ELSE r1 ]

\* convert, lines 131-162, up to the point where it first waits for a
\* subprocess (yt-dlp, or the first ffmpeg).
convert(r, uploaded, url_field, form) ==
    /\ LET youtube_url == Strip(url_field)
           rq == [req[r] EXCEPT
                    !.form = form,
                    !.supplied = (IF uploaded = <<>> THEN {} ELSE {"file"})
                                 \cup (IF youtube_url = <<>> THEN {} ELSE {"url"})]
       IN
       IF ~ffmpeg_on_path
       THEN \* ensure_ffmpeg raises RuntimeError outside any try
            /\ req' = [req EXCEPT ![r] = Escaped(rq, "ToolUnavailable")]
            /\ fs' = fs
       ELSE IF missing_input(uploaded, youtube_url)
       THEN /\ req' = [req EXCEPT ![r] = Ended(rq, "MissingInput")]
            /\ fs' = fs
       ELSE IF uploaded # <<>> /\ ~allowed_file(uploaded)
       THEN /\ req' = [req EXCEPT ![r] = Ended(rq, "UnsupportedType")]
            /\ fs' = fs
       ELSE \E id \in Ids \ UsedIds :
            LET fs1 == Mkdir(Mkdir(Mkdir(fs, UPLOAD_DIR), DOWNLOAD_DIR), OUTPUT_DIR)
                r1 == [rq EXCEPT !.file_id = id,
                                 !.created = fs1.dirs \ fs.dirs]
            IN
            IF youtube_url # <<>>
            THEN IF ~ytdlp_on_path
                 THEN \* ensure_ytdlp raises RuntimeError, caught at line 153
                      /\ req' = [req EXCEPT ![r] =
                            Ended([r1 EXCEPT !.acquired = @ \cup {"download"}],
                                  "ToolUnavailable")]
                      /\ fs' = fs1
                 ELSE LET fs2 == Mkdir(fs1, DownloadDirOf(id))
                      IN  /\ req' = [req EXCEPT ![r] =
                                [r1 EXCEPT !.pc = "downloading",
                                           !.acquired = @ \cup {"download"},
                                           !.created = @ \cup (fs2.dirs \ fs1.dirs)]]
                          /\ fs' = fs2
            ELSE LET extension == Lower(AfterLastDot(uploaded))
                     input_path == UploadPathOf(id, extension)
                     loc == Resolve(fs1, input_path)
                     fs2 == WriteFile(fs1, loc)
                     r2 == [r1 EXCEPT !.acquired = @ \cup {"upload"},
                                      !.written = @ \cup {loc}]
                     next == Planned(r2, fs2, input_path)
                 IN  /\ req' = [req EXCEPT ![r] = next.rq]
                     /\ fs' = next.fs
    /\ UNCHANGED <<run, ffmpeg_on_path, ytdlp_on_path, served, cli>>

\* A client POSTs to /convert: a thread runs the handler on what was sent.
ConvertBegin(r) ==
    /\ run = "convert" \/ (run = "retrieve" /\ r = 1)
    /\ req[r].pc = "idle"
    /\ \E u \in UploadNames, y \in UrlFields, f \in Forms : convert(r, u, y, f)

\* download_from_youtube, lines 102-117, and convert up to the first ffmpeg:
\* yt-dlp has exited.
download_from_youtube(r, ending) ==
    /\ LET rq == req[r]
           dirloc == Resolve(fs, DownloadDirOf(rq.file_id))
           locs == {dirloc \o <<n>> : n \in ending.names}
           fs1 == [fs EXCEPT !.files = @ \cup locs]
           r1 == [rq EXCEPT !.written = @ \cup locs, !.ytdlp = <<ending>>]
           downloaded_files == GlobSource(fs1, dirloc)
       IN
       IF acquisition_failed(ending.rc, downloaded_files)
       THEN \* CalledProcessError or RuntimeError, caught at line 153
            /\ req' = [req EXCEPT ![r] = Ended(r1, "AcquisitionFailed")]
            /\ fs' = fs1
       ELSE LET input_path ==
                    PathJoin(DownloadDirOf(rq.file_id), downloaded_files[1])
                next == Planned(r1, fs1, input_path)
            IN  /\ req' = [req EXCEPT ![r] = next.rq]
                /\ fs' = next.fs
    /\ UNCHANGED <<run, ffmpeg_on_path, ytdlp_on_path, served, cli>>

\* The yt-dlp subprocess of request r exits and the handler resumes.
DownloadExit(r) ==
    /\ req[r].pc = "downloading"
    /\ \E e \in YtdlpEndings : download_from_youtube(r, e)

\* convert, lines 180-190: one ffmpeg run of run_commands has ended.
RunCommand(r) ==
    /\ req[r].pc = "running"
    /\ \E ending \in {"ok", "partial", "fail"} :
       LET rq == req[r]
           command == rq.batch.commands[rq.batch.i]
       IN
       /\ ending \in FfmpegEndings(fs, command)
       /\ LET fs1 == ffmpeg(fs, command, ending)
              b1 == run_commands(rq.batch, IF ending = "ok" THEN 0 ELSE 1)
              r1 == [rq EXCEPT !.batch = b1,
                               !.written = @ \cup (fs1.files \ fs.files)
                                             \cup (IF ending = "fail" THEN {}
                                                   ELSE {OutputLocation(fs, command)})]
          IN
          /\ fs' = fs1
          /\ req' = [req EXCEPT ![r] =
                IF BatchRaised(b1) THEN Ended(r1, "ConversionFailed")
                ELSE IF BatchReturned(b1)
                THEN [Ended(r1, "Success") EXCEPT
                         !.outputs = Listing(fs1, rq.output_dir)]
                ELSE r1]
    /\ UNCHANGED <<run, ffmpeg_on_path, ytdlp_on_path, served, cli>>

\* --------------------------------------- web app: /download/<file_id>/<filename>

\* flask.send_from_directory(directory, filename): werkzeug's safe_join
\* refuses a filename that is "..", and a path that is no regular file is
\* answered 404; otherwise the file at the path is sent.
send_from_directory(fsys, directory, filename) ==
    IF filename = DOTDOT THEN NOT_FOUND
    ELSE LET path == PathOf(PathStr(directory) \o <<"/">> \o filename)
         IN  IF IsFile(fsys, path) THEN Resolve(fsys, path) ELSE NOT_FOUND

\* The handler download(file_id, filename), lines 194-196.
download(fsys, file_id, filename) ==
    send_from_directory(fsys, PathJoin(OUTPUT_DIR, file_id), filename)

\* The URL segments a client can put in the route: a segment is not empty and
\* holds no "/" (the route's default converter).
FileIdSegments == Ids \cup {DOTDOT, DOT}
FilenameSegments(fsys) ==
    {Name(f) : f \in fsys.files} \cup {DOTDOT, S("nosuch")}

Download ==
    /\ run = "retrieve"
    /\ \E file_id \in FileIdSegments, filename \in FilenameSegments(fs) :
          served' = [file_id |-> file_id, filename |-> filename,
                     result |-> download(fs, file_id, filename)]
    /\ UNCHANGED <<run, ffmpeg_on_path, ytdlp_on_path, fs, req, cli>>

\* --------------------------------------------------- converter.py: main

\* The raw values of --bitrates / --resolutions: every string of at most
\* MaxCsvLen atoms over CsvAtoms.
CsvAtoms == {"128k", "320k", ",", " ", "/"}
CsvValues == UNION {[1..n -> CsvAtoms] : n \in 0..MaxCsvLen}
CliInputs == {PathOf(<<"song", ".", "wav">>), PathOf(<<"nosuch", ".", "wav">>)}
CliOutputDirs == {PathOf(S("output")), PathOf(<<"dist", "/", "mp3">>)}

\* argparse: type=parse_csv converts a value given on the command line; the
\* default list is used as it is when the option is absent.
ArgList(given, raw, default) == IF given THEN parse_csv(raw) ELSE default

\* main, lines 119-136 up to the first subprocess.
main(input, output_dir, mode, given, raw) ==
    /\ LET parsed == ArgList(given, raw,
                         IF mode = "mp3" THEN DEFAULT_MP3_BITRATES
                         ELSE DEFAULT_MP4_RESOLUTIONS)
           c1 == [cli EXCEPT !.mode = mode, !.given = given,
                             !.raw = IF given THEN raw ELSE <<>>,
                             !.tokens = parsed, !.input = input,
                             !.output_dir = output_dir]
       IN
       IF ~ffmpeg_on_path
       THEN \* ensure_ffmpeg raises SystemExit
            /\ cli' = [c1 EXCEPT !.pc = "done", !.exit = "SystemExit"]
            /\ fs' = fs
       ELSE LET commands ==
                    IF mode = "mp3"
                    THEN build_mp3_commands(input, output_dir, parsed)
                    ELSE build_mp4_commands(input, output_dir, parsed,
                             DEFAULT_VIDEO_BITRATE, DEFAULT_AUDIO_BITRATE)
                b1 == [BlankBatch EXCEPT !.commands = commands]
            IN  /\ fs' = Mkdir(fs, output_dir)
                /\ cli' = IF BatchReturned(b1)
                          THEN [c1 EXCEPT !.batch = b1, !.pc = "done", !.exit = "ok"]
                          ELSE [c1 EXCEPT !.batch = b1, !.pc = "running"]
    /\ UNCHANGED <<run, ffmpeg_on_path, ytdlp_on_path, req, served>>

\* converter.py is started with a command line.
CliMain ==
    /\ run = "cli"
    /\ cli.pc = "start"
    /\ \E p \in CliInputs, o \in CliOutputDirs, m \in {"mp3", "mp4"} :
          \/ main(p, o, m, FALSE, <<>>)
          \/ \E v \in CsvValues : main(p, o, m, TRUE, v)

\* main, line 136: one ffmpeg run of run_commands has ended.
CliRunCommand ==
    /\ run = "cli"
    /\ cli.pc = "running"
    /\ \E ending \in {"ok", "partial", "fail"} :
       LET command == cli.batch.commands[cli.batch.i]
       IN
       /\ ending \in FfmpegEndings(fs, command)
       /\ LET b1 == run_commands(cli.batch, IF ending = "ok" THEN 0 ELSE 1)
          IN  /\ fs' = ffmpeg(fs, command, ending)
              /\ cli' = IF BatchRaised(b1)
                        THEN [cli EXCEPT !.batch = b1, !.pc = "done",
                                         !.exit = "CalledProcessError"]
                        ELSE IF BatchReturned(b1)
                        THEN [cli EXCEPT !.batch = b1, !.pc = "done", !.exit = "ok"]
                        ELSE [cli EXCEPT !.batch = b1]
    /\ UNCHANGED <<run, ffmpeg_on_path, ytdlp_on_path, req, served>>

\* ---------------------------------------------------------- specification

Next ==
    \/ \E r \in Requests : ConvertBegin(r)
    \/ \E r \in Requests : DownloadExit(r)
    \/ \E r \in Requests : RunCommand(r)
    \/ Download
    \/ CliMain
    \/ CliRunCommand

Spec == Init /\ [][Next]_vars

\* ================================================================ claims

\* What the claims read.
Started(rq) == rq.pc # "idle"
Accepted(rq) == rq.file_id # <<>>
HasPlan(rq) == rq.output_dir # <<>>
CliPlanned == cli.pc # "start" /\ cli.exit # "SystemExit"
ExtOf(mp3) == IF mp3 THEN "mp3" ELSE "mp4"
Distinct(seq) == \A i, j \in 1..Len(seq) : i # j => seq[i] # seq[j]
OnDisk(command) == Resolve(fs, OutputArg(command)) \in fs.files
JobOutputLoc(file_id) == FromRoot(OUTPUT_DIR) \o <<file_id>>
JobDownloadLoc(file_id) == FromRoot(DOWNLOAD_DIR) \o <<file_id>>
IsSourceName(name) == Len(name) >= 2 /\ name[1] = "source" /\ name[2] = "."

\* ---- C1
\* The batch runs its commands one at a time in plan order and stops at the
\* first non-zero exit: a non-zero exit is the last run, it is the one the
\* raised error names, and a batch that returned ran every command with exit 0.
FailFast(b) ==
    LET k == Len(b.ran)
    IN  /\ k <= Len(b.commands)
        /\ \A j \in 1..k : b.ran[j].command = b.commands[j]
        /\ \A j \in 1..(k - 1) : b.ran[j].rc = 0
        /\ BatchRaised(b) <=> (k > 0 /\ b.ran[k].rc # 0)
        /\ BatchRaised(b) =>
              /\ b.raised[1].cmd = b.commands[k]
              /\ b.raised[1].returncode = b.ran[k].rc
              /\ b.i = k
              /\ \A j \in 1..(k - 1) : OnDisk(b.commands[j])
        /\ BatchReturned(b) =>
              /\ k = Len(b.commands)
              /\ \A j \in 1..k : b.ran[j].rc = 0 /\ OnDisk(b.commands[j])

\* C1: when invocation k of N is the first to exit non-zero, exactly the
\* invocations 1..k have run, in plan order, the outputs of 1..k-1 are on
\* disk, the error raised names invocation k, nothing runs afterwards (the
\* request or process has ended, as ConversionFailed / CalledProcessError),
\* and success is reported only when every invocation exited zero; in the web
\* app and in the CLI.
C1_FailFast ==
    /\ \A r \in Requests :
          /\ FailFast(req[r].batch)
          /\ BatchRaised(req[r].batch) <=> req[r].outcome = "ConversionFailed"
          /\ BatchRaised(req[r].batch) => req[r].pc = "done"
          /\ req[r].outcome = "Success" =>
                req[r].pc = "done" /\ BatchReturned(req[r].batch)
    /\ FailFast(cli.batch)
    /\ BatchRaised(cli.batch) <=> cli.exit = "CalledProcessError"
    /\ BatchRaised(cli.batch) => cli.pc = "done"
    /\ cli.exit = "ok" => cli.pc = "done" /\ BatchReturned(cli.batch)

\* Invocation 2 of 3 failed in a web request.
C1_Witness ==
    \E r \in Requests :
        /\ req[r].outcome = "ConversionFailed"
        /\ Len(req[r].batch.commands) = 3
        /\ Len(req[r].batch.ran) = 2

\* ---- C2
\* C2: a request that ends with ToolUnavailable (ffmpeg or yt-dlp missing)
\* has created no directory and written no file.
C2_ToolUnavailableLeavesNoState ==
    \A r \in Requests :
        req[r].outcome = "ToolUnavailable" =>
            req[r].created = {} /\ req[r].written = {}

\* ---- C3
\* C3: whatever file_id and filename a retrieval names, the answer is
\* NotFound or a file strictly inside OUTPUT_DIR/<file_id> of a job that
\* exists.
C3_RetrievalConfined ==
    served # NoRequest =>
        \/ served.result = NOT_FOUND
        \/ /\ served.file_id \in UsedIds
           /\ StrictlyInside(served.result, JobOutputLoc(served.file_id))

\* ---- C4
\* The raw comma-separated value the front end parsed.
WebRaw(form) ==
    IF IsMp3(form) THEN FormGet(form, "bitrates", <<>>)
    ELSE FormGet(form, "resolutions", <<>>)
DefaultTokens(mp3) ==
    IF mp3 THEN DEFAULT_MP3_BITRATES ELSE DEFAULT_MP4_RESOLUTIONS

\* C4: in the web handler and in the CLI, a raw value that parses to the
\* empty list makes the planner run on the default list of the mode, and the
\* batch is never empty.
C4_EmptyFallsBackToDefaults ==
    /\ \A r \in Requests :
          HasPlan(req[r]) =>
             /\ req[r].batch.commands # <<>>
             /\ parse_csv(WebRaw(req[r].form)) = <<>> =>
                   req[r].tokens = DefaultTokens(IsMp3(req[r].form))
    /\ CliPlanned =>
          /\ cli.batch.commands # <<>>
          /\ parse_csv(cli.raw) = <<>> =>
                cli.tokens = DefaultTokens(cli.mode = "mp3")

\* ---- C5
\* C5 as stated: after a successful batch the listing has as many files as
\* there are planned invocations.
C5_OneFilePerInvocation ==
    \A r \in Requests :
        req[r].outcome = "Success" =>
            Len(req[r].outputs) = Len(req[r].batch.commands)

\* C5 as amended: after a successful batch the listing holds exactly one
\* file per distinct token, {stem}_{token}.{ext}: as many files as there are
\* distinct tokens, which is the number of planned invocations when no token
\* repeats.
C5_OneFilePerDistinctToken ==
    \A r \in Requests :
        req[r].outcome = "Success" =>
            LET rq == req[r]
                names == { Stem(Name(rq.input_path)) \o <<"_">> \o tok
                             \o <<".", ExtOf(IsMp3(rq.form))>> :
                           tok \in Range(rq.tokens) }
            IN  /\ Range(rq.outputs) = names
                /\ Len(rq.outputs) = Cardinality(Range(rq.tokens))
                /\ Distinct(rq.tokens) =>
                      Len(rq.outputs) = Len(rq.batch.commands)

\* A batch of the three default variants succeeded and three files are listed.
C5_Witness ==
    \E r \in Requests :
        /\ req[r].outcome = "Success"
        /\ Len(req[r].batch.commands) = 3
        /\ Len(req[r].outputs) = 3

\* ---- C6
\* C6: every request that ended did so inside its handler, with an outcome.
C6_ErrorsHandledAtBoundary ==
    \A r \in Requests :
        req[r].pc = "done" => req[r].handled /\ req[r].outcome # ""

\* ---- C7
\* C7: a URL job whose yt-dlp exited non-zero, or exited zero leaving no
\* source.* file in the job's download directory, ends as a handled
\* AcquisitionFailed and no ffmpeg command is planned or run for it.
C7_FailedAcquisitionNeverTranscodes ==
    \A r \in Requests :
        LET rq == req[r]
            found == { f \in fs.files :
                          /\ Parent(f) = JobDownloadLoc(rq.file_id)
                          /\ IsSourceName(Name(f)) }
        IN  (rq.ytdlp # <<>> /\ (rq.ytdlp[1].rc # 0 \/ found = {})) =>
                /\ rq.pc = "done"
                /\ rq.outcome = "AcquisitionFailed"
                /\ rq.handled
                /\ ~HasPlan(rq)
                /\ rq.batch = BlankBatch

\* yt-dlp exited zero and left nothing: the defensive check fired.
C7_Witness ==
    \E r \in Requests :
        /\ req[r].ytdlp # <<>>
        /\ req[r].ytdlp[1].rc = 0
        /\ req[r].ytdlp[1].names = {}
        /\ req[r].outcome = "AcquisitionFailed"

\* ---- C8
\* The plan for `tokens`: one command per token, in order, the i-th writing
\* {stem}_{token_i}.{ext} in output_dir and carrying token_i.
PlanFollows(input_path, output_dir, tokens, commands, mp3) ==
    /\ Len(commands) = Len(tokens)
    /\ \A i \in 1..Len(tokens) :
          /\ OutputArg(commands[i]) =
                output_dir \o Components(Stem(Name(input_path)) \o <<"_">>
                                 \o tokens[i] \o <<".", ExtOf(mp3)>>)
          /\ IF mp3 THEN commands[i][7] = tokens[i]
             ELSE commands[i][6] = <<"scale=">> \o tokens[i]

\* C8: for every non-empty token list, in audio and in video mode, the
\* planner emits one invocation per element, the i-th writing
\* {stem}_{token_i}.mp3 (or .mp4), so the order of execution is the order of
\* the list; in the web app and in the CLI.
C8_PlanPreservesTokens ==
    /\ \A r \in Requests :
          (HasPlan(req[r]) /\ req[r].tokens # <<>>) =>
              PlanFollows(req[r].input_path, req[r].output_dir, req[r].tokens,
                          req[r].batch.commands, IsMp3(req[r].form))
    /\ (CliPlanned /\ cli.tokens # <<>>) =>
          PlanFollows(cli.input, cli.output_dir, cli.tokens,
                      cli.batch.commands, cli.mode = "mp3")

\* The CLI planned two different bitrates, 128k before 320k.
C8_Witness ==
    /\ CliPlanned
    /\ cli.mode = "mp3"
    /\ cli.tokens = <<S("128k"), S("320k")>>
    /\ Len(cli.batch.commands) = 2

\* ---- C9
\* Exactly one acquisition path is taken by an accepted request: the URL
\* download when a URL was sent, the upload otherwise.
OnePathTaken ==
    \A r \in Requests :
        Accepted(req[r]) =>
            /\ Cardinality(req[r].acquired) = 1
            /\ req[r].acquired = {"download"} <=> "url" \in req[r].supplied

\* C9 as stated: a request with neither a file nor a URL ends with
\* MissingInput and has created nothing; an accepted request takes exactly
\* one acquisition path.
C9_NoInputIsMissingInput ==
    /\ \A r \in Requests :
          (Started(req[r]) /\ req[r].supplied = {}) =>
              /\ req[r].outcome = "MissingInput"
              /\ req[r].created = {} /\ req[r].written = {}
    /\ OnePathTaken

\* C9 as amended: a request with neither a file nor a URL is never accepted
\* and creates nothing; it ends with MissingInput when ffmpeg is installed
\* and with ToolUnavailable (the check that comes first) when it is not; an
\* accepted request takes exactly one acquisition path.
C9_NoInputRejectedBeforeAnyDirectory ==
    /\ \A r \in Requests :
          (Started(req[r]) /\ req[r].supplied = {}) =>
              /\ req[r].pc = "done"
              /\ ~Accepted(req[r])
              /\ req[r].outcome =
                    (IF ffmpeg_on_path THEN "MissingInput" ELSE "ToolUnavailable")
              /\ req[r].created = {} /\ req[r].written = {}
    /\ OnePathTaken

\* A request without input was rejected as MissingInput while another
\* request, sent with both a file and a URL, was accepted.
C9_Witness ==
    \E r, q \in Requests :
        /\ req[r].supplied = {} /\ req[r].outcome = "MissingInput"
        /\ req[q].supplied = {"file", "url"} /\ Accepted(req[q])

\* ---- C10
\* The files request r may write: its saved upload, the contents of its
\* download directory, the contents of its output directory.
OwnFile(file_id, loc) ==
    \/ /\ Parent(loc) = FromRoot(UPLOAD_DIR)
       /\ \E e \in ALLOWED_EXTENSIONS : Name(loc) = file_id \o <<".">> \o e
    \/ StrictlyInside(loc, JobDownloadLoc(file_id))
    \/ StrictlyInside(loc, JobOutputLoc(file_id))

====
